---- MODULE Spec2Model ----
(***************************************************************************)
(* graphtries: a g-trie of canonical pattern adjacency rows, built by      *)
(* insertion of canonicalised patterns with their symmetry-breaking        *)
(* conditions, and the census that walks the trie and a host graph in      *)
(* lock-step.  Vectors and bitsets are indexed from 0 as in the source;    *)
(* a Vec is a sequence, element i of it is At(s, i).                       *)
(*                                                                         *)
(* Parts the sources call but do not define are written from the           *)
(* specification text: the insertion of a pattern together with its        *)
(* conditions (child_for, merge_conditions), the census entry point that   *)
(* starts match_child_conditionally at the children of the root, the       *)
(* running total_matches, and Bitgraph::fast_neighbors.  The automorphism  *)
(* list and the orbits come from the nauty binding; they are modelled as   *)
(* the whole automorphism group, identity included, and the least vertex   *)
(* of each orbit.  The labelling nauty gives a pattern before              *)
(* canonical_based_nauty is the labelling of the library entries below.    *)
(*                                                                         *)
(* Spec is the program: the build loop, then the census step by step.      *)
(* UnitSpec applies one operation to one input at a time (the loader,      *)
(* Bitgraph::from_graph, the canonicaliser with its labelling oracle,      *)
(* calculate_relabels, Gtrie::insert with its assertion) and drives the    *)
(* Candidates buffer through arbitrary sequences of its four methods.      *)
(***************************************************************************)
EXTENDS Integers, Sequences, FiniteSets, TLC

(* ------------------------------ bounds --------------------------------- *)

\* max_depth of the trie (the size given to Gtrie::new).
MaxDepth == 3

\* Number of patterns the build loop inserts at most.
MaxInserts == 2

\* Number of directed edges of the host edge list at most.
MaxHostEdges == 6

\* The longest edge list handed to the loader and to Bitgraph::from_graph.
MaxLines == 2

(* ------------------------------ helpers -------------------------------- *)

At(s, i) == s[i + 1]

Range(s) == {s[i] : i \in 1..Len(s)}

Max2(a, b) == IF a < b THEN b ELSE a

RECURSIVE AscSeq(_)
\* The members of a finite set of naturals in ascending order (FixedBitSet::ones).
AscSeq(S) ==
    IF S = {} THEN <<>>
    ELSE LET m == CHOOSE x \in S : \A y \in S : x <= y
         IN <<m>> \o AscSeq(S \ {m})

RECURSIVE Concat(_)
Concat(ss) == IF ss = <<>> THEN <<>> ELSE Head(ss) \o Concat(Tail(ss))

(* ------------------------------ loader --------------------------------- *)

RECURSIVE load_lines_loops_first(_, _, _), load_lines(_, _, _)
\* A faulty variant of the loop of load_numeric_graph_from_buffer: a line with
\* u = v is dropped before its ids are looked at.
load_lines_loops_first(lines, include_loops, edges) ==
    IF lines = <<>> THEN [ok |-> TRUE, edges |-> edges]
    ELSE LET u == Head(lines)[1]
             v == Head(lines)[2]
         IN IF ~include_loops /\ u = v
            THEN load_lines_loops_first(Tail(lines), include_loops, edges)
            ELSE IF u = 0 \/ v = 0
            THEN [ok |-> FALSE, edges |-> <<>>]
            ELSE load_lines_loops_first(Tail(lines), include_loops,
                                        Append(edges, <<u - 1, v - 1>>))

\* The loop of load_numeric_graph_from_buffer over the lines left, each line
\* already split into its two ids: bail on id 0, else push (u-1, v-1).
load_lines(lines, include_loops, edges) ==
    IF lines = <<>> THEN [ok |-> TRUE, edges |-> edges]
    ELSE LET u == Head(lines)[1]
             v == Head(lines)[2]
         IN IF u = 0 \/ v = 0
            THEN [ok |-> FALSE, edges |-> <<>>]
            ELSE IF ~include_loops /\ u = v
            THEN load_lines(Tail(lines), include_loops, edges)
            ELSE load_lines(Tail(lines), include_loops,
                            Append(edges, <<u - 1, v - 1>>))

\* load_numeric_graph_from_buffer: Err, or Ok with the edges given to from_edges.
load_numeric_graph_from_buffer(lines, include_loops) ==
    load_lines(lines, include_loops, <<>>)

(* ------------------------------ Bitgraph ------------------------------- *)

\* petgraph Graph::from_edges: the node count is one more than the largest index.
node_count(edges) ==
    IF edges = {} THEN 0
    ELSE 1 + (CHOOSE m \in {e[1] : e \in edges} \cup {e[2] : e \in edges} :
                 \A e \in edges : e[1] <= m /\ e[2] <= m)

\* Bitgraph::from_graph for a graph of n nodes and the given edges: the packed
\* adjacency, the undirected neighbour sets and their counts.
from_graph(n, edges) ==
    LET adj == {e[1] * n + e[2] : e \in edges}
    IN [n      |-> n,
        adj    |-> adj,
        unei   |-> [u \in 0..(n - 1) |->
                      {e[2] : e \in {x \in edges : x[1] = u}}
                         \cup {e[1] : e \in {x \in edges : x[2] = u}}],
        n_unei |-> [u \in 0..(n - 1) |->
                      Cardinality({v \in 0..(n - 1) :
                          /\ v # u
                          /\ (u * n + v \in adj \/ v * n + u \in adj)})]]

is_connected(g, u, v) == (u * g.n + v) \in g.adj

n_nodes(g) == g.n

undir_neighbors(g, u) == g.unei[u]

n_undir_neighbors(g, u) == g.n_unei[u]

\* Only the adjacency is replaced; the neighbour views are left as they are.
overwrite_adjacency(g, adj) == [g EXCEPT !.adj = adj]

\* The neighbour list the census iterates: the undirected neighbours, ascending.
fast_neighbors(g, v) == AscSeq(undir_neighbors(g, v))

(* ------------------------------ Conditions ----------------------------- *)

Condition(u, v) == [u |-> u, v |-> v]

cmax(c) == c.v

cmin(c) == c.u

\* Option<Conditions>: None, or Some of a Vec<Condition>.
NoConditions == [some |-> FALSE, conds |-> <<>>]

SomeConditions(cs) == [some |-> TRUE, conds |-> cs]

is_respected(c, d1, d2, u, v) ==
    IF d1 = c.u /\ d2 = c.v THEN u < v ELSE TRUE

respects_all(cs, d1, d2, u, v) ==
    \A k \in 1..Len(cs) : is_respected(cs[k], d1, d2, u, v)

respects_any(cs, d1, d2, u, v) ==
    \E k \in 1..Len(cs) : is_respected(cs[k], d1, d2, u, v)

contains(cs, c) == c \in Range(cs)

(* ------------------------------ GtrieNode ------------------------------ *)

\* GtrieNode::new
new(depth) ==
    [depth       |-> depth,
     children    |-> <<>>,
     is_graph    |-> FALSE,
     edge_in     |-> {},
     edge_out    |-> {},
     frequency   |-> 0,
     connections |-> <<>>,
     conditions  |-> NoConditions]

\* A faulty variant of new_conditional: the conditions are not filtered by depth.
new_conditional_unfiltered(depth, cs) ==
    IF cs = <<>>
    THEN new(depth)
    ELSE [new(depth) EXCEPT !.conditions = SomeConditions(cs)]

\* GtrieNode::new_conditional: keeps the conditions with max() < depth.
new_conditional(depth, cs) ==
    LET possible_conditions == SelectSeq(cs, LAMBDA c : cmax(c) < depth)
    IN IF possible_conditions = <<>>
       THEN new(depth)
       ELSE [new(depth) EXCEPT !.conditions = SomeConditions(possible_conditions)]

in_contains(node, v) == v \in node.edge_in

out_contains(node, v) == v \in node.edge_out

\* A faulty variant of update_adjacency: the two directions are exchanged.
update_adjacency_transposed(node, graph, k) ==
    LET fwd == {u \in 0..(k - 1) : is_connected(graph, u, k - 1)}
        bwd == {u \in 0..(k - 1) : is_connected(graph, k - 1, u)}
    IN [node EXCEPT !.connections = @ \o AscSeq(fwd \cup bwd),
                    !.edge_out = @ \cup bwd,
                    !.edge_in = @ \cup fwd]

\* GtrieNode::update_adjacency: row k-1 of the pattern, columns 0 .. k-1.
update_adjacency(node, graph, k) ==
    LET fwd == {u \in 0..(k - 1) : is_connected(graph, u, k - 1)}
        bwd == {u \in 0..(k - 1) : is_connected(graph, k - 1, u)}
    IN [node EXCEPT !.connections = @ \o AscSeq(fwd \cup bwd),
                    !.edge_out = @ \cup fwd,
                    !.edge_in = @ \cup bwd]

set_graph(node, b) == [node EXCEPT !.is_graph = b]

insert_child(node, child) == [node EXCEPT !.children = Append(@, child)]

\* A faulty variant of increment_frequency: the counter is bumped twice.
increment_frequency_twice(node) == [node EXCEPT !.frequency = @ + 2]

\* A faulty variant of increment_frequency: the match is also logged in the
\* node's active connections.
increment_frequency_logs(node) ==
    [node EXCEPT !.frequency = @ + 1, !.connections = Append(@, node.depth)]

increment_frequency(node) == [node EXCEPT !.frequency = @ + 1]

is_graph(node) == node.is_graph

conditions(node) == node.conditions

\* A faulty variant of intersect_conditions: the node keeps all its conditions.
intersect_conditions_keeps_all(node, cs) == node

\* A faulty variant of intersect_conditions: an emptied set is left in place.
intersect_conditions_leaves_empty(node, cs) ==
    IF ~node.conditions.some THEN node
    ELSE [node EXCEPT !.conditions =
             SomeConditions(SelectSeq(node.conditions.conds, LAMBDA x : contains(cs, x)))]

\* GtrieNode::intersect_conditions
intersect_conditions(node, cs) ==
    IF ~node.conditions.some THEN node
    ELSE LET kept == SelectSeq(node.conditions.conds, LAMBDA x : contains(cs, x))
         IN IF kept = <<>>
            THEN [node EXCEPT !.conditions = NoConditions]
            ELSE [node EXCEPT !.conditions = SomeConditions(kept)]

(* ------------------------------ Gtrie ---------------------------------- *)

\* The trie is an arena of nodes; a child list holds arena indices.
Root == 1

\* Gtrie::new
EmptyTrie == <<new(0)>>

\* A faulty variant of depth_eq: only the out_row is compared.
depth_eq_out_only(node, graph, k) ==
    \A idx \in 0..k : out_contains(node, idx) = is_connected(graph, idx, k)

\* Gtrie::depth_eq
depth_eq(node, graph, k) ==
    \A idx \in 0..k :
        /\ out_contains(node, idx) = is_connected(graph, idx, k)
        /\ in_contains(node, idx) = is_connected(graph, k, idx)

\* Insertion with conditions (specification 4.3): a new child gets the inserted
\* conditions restricted to max() < depth.
child_for(depth, conds) ==
    IF conds.some THEN new_conditional(depth, conds.conds) ELSE new(depth)

\* Insertion with conditions (specification 4.4): an existing node the pattern
\* passes through keeps only the conditions the inserted pattern has too; a
\* pattern inserted without conditions leaves it none.
merge_conditions(node, conds) ==
    IF conds.some THEN intersect_conditions(node, conds.conds)
    ELSE [node EXCEPT !.conditions = NoConditions]

RECURSIVE insert_recursively(_, _, _, _, _)
\* Gtrie::insert_recursively on the arena: the arena after the insertion.
insert_recursively(nodes, graph, conds, node, k) ==
    IF k = n_nodes(graph)
    THEN [nodes EXCEPT ![node] = set_graph(@, TRUE)]
    ELSE LET kids == nodes[node].children
             hit == {j \in 1..Len(kids) : depth_eq(nodes[kids[j]], graph, k)}
         IN IF hit # {}
            THEN LET c == kids[CHOOSE j \in hit : \A i \in hit : j <= i]
                 IN insert_recursively(
                        [nodes EXCEPT ![c] = merge_conditions(@, conds)],
                        graph, conds, c, k + 1)
            ELSE LET id == Len(nodes) + 1
                     child == update_adjacency(child_for(k + 1, conds), graph, k + 1)
                     built == insert_recursively(Append(nodes, child), graph, conds,
                                                 id, k + 1)
                 IN [built EXCEPT ![node] = insert_child(@, id)]

\* Gtrie::insert (its assertion n_nodes <= max_depth is the guard of Insert).
insert(nodes, graph, conds) == insert_recursively(nodes, graph, conds, Root, 0)

\* A faulty variant of the assertion of Gtrie::insert: the bound is strict.
insert_asserting_strictly(max_depth, nodes, graph, conds) ==
    IF n_nodes(graph) < max_depth
    THEN [ok |-> TRUE, nodes |-> insert(nodes, graph, conds)]
    ELSE [ok |-> FALSE, nodes |-> nodes]

\* Gtrie::insert on a trie of the given max_depth, assertion included: the
\* assertion fails first (ok is FALSE, the arena is as it was), or the pattern
\* is inserted.
insert_asserting(max_depth, nodes, graph, conds) ==
    IF n_nodes(graph) <= max_depth
    THEN [ok |-> TRUE, nodes |-> insert(nodes, graph, conds)]
    ELSE [ok |-> FALSE, nodes |-> nodes]

(* ------------------------------ canonical form ------------------------- *)

\* The automorphism oracle (AutoGroups) of a graph of size n with packed adjacency
\* adj: its automorphisms as vectors g (vertex v goes to g[v]), identity included,
\* and the orbit array giving each vertex the least vertex of its orbit.
PermVectors(n) ==
    {g \in [0..(n - 1) -> 0..(n - 1)] : \A a, b \in 0..(n - 1) : g[a] = g[b] => a = b}

automorphisms(adj, n) ==
    {g \in PermVectors(n) :
        \A u, v \in 0..(n - 1) : (u * n + v \in adj) <=> (g[u] * n + g[v] \in adj)}

orbits(adj, n) ==
    [v \in 0..(n - 1) |->
        CHOOSE m \in {g[v] : g \in automorphisms(adj, n)} :
            \A g \in automorphisms(adj, n) : m <= g[v]]

AutoGroups(adj, n) ==
    [automorphisms |-> automorphisms(adj, n), orbits |-> orbits(adj, n)]

\* init_degrees: degree, global_degree and last_degree all start as in + out degree.
init_degrees(adj, n) ==
    [u \in 0..(n - 1) |->
        Cardinality({v \in 0..(n - 1) : u * n + v \in adj})
          + Cardinality({v \in 0..(n - 1) : v * n + u \in adj})]

smaller_last_degree(last_degree, u, min_u) == last_degree[u] < last_degree[min_u]

smaller_global_degree(last_degree, global_degree, u, min_u) ==
    last_degree[u] = last_degree[min_u] /\ global_degree[u] < global_degree[min_u]

RECURSIVE select_loop_reuses(_, _, _, _, _, _, _, _)
\* A faulty variant of the loop of select_minimum_vertex: used vertices are not
\* skipped.
select_loop_reuses(degree, last_degree, global_degree, usedv, ap, size, u, min_u) ==
    IF u = size THEN min_u
    ELSE IF ap[u]
    THEN select_loop_reuses(degree, last_degree, global_degree, usedv, ap, size, u + 1, min_u)
    ELSE IF min_u < 0 \/ degree[u] < degree[min_u]
    THEN select_loop_reuses(degree, last_degree, global_degree, usedv, ap, size, u + 1, u)
    ELSE IF /\ degree[u] = degree[min_u]
            /\ \/ smaller_last_degree(last_degree, u, min_u)
               \/ smaller_global_degree(global_degree, last_degree, u, min_u)
    THEN select_loop_reuses(degree, last_degree, global_degree, usedv, ap, size, u + 1, u)
    ELSE select_loop_reuses(degree, last_degree, global_degree, usedv, ap, size, u + 1, min_u)

RECURSIVE select_loop(_, _, _, _, _, _, _, _)
\* The loop of select_minimum_vertex from vertex u on; min_u is -1 while none is chosen.
select_loop(degree, last_degree, global_degree, usedv, ap, size, u, min_u) ==
    IF u = size THEN min_u
    ELSE IF usedv[u] \/ ap[u]
    THEN select_loop(degree, last_degree, global_degree, usedv, ap, size, u + 1, min_u)
    ELSE IF min_u < 0 \/ degree[u] < degree[min_u]
    THEN select_loop(degree, last_degree, global_degree, usedv, ap, size, u + 1, u)
    ELSE IF /\ degree[u] = degree[min_u]
            /\ \/ smaller_last_degree(last_degree, u, min_u)
               \/ smaller_global_degree(global_degree, last_degree, u, min_u)
    THEN select_loop(degree, last_degree, global_degree, usedv, ap, size, u + 1, u)
    ELSE select_loop(degree, last_degree, global_degree, usedv, ap, size, u + 1, min_u)

select_minimum_vertex(degree, last_degree, global_degree, usedv, ap, size) ==
    select_loop(degree, last_degree, global_degree, usedv, ap, size, 0, -1)

\* update_degree: the pair (degree, last_degree) after vertex u is taken out.
update_degree(adj, size, degree, u) ==
    [degree      |-> [v \in 0..(size - 1) |->
                        degree[v] - (IF u * size + v \in adj THEN 1 ELSE 0)
                                  - (IF v * size + u \in adj THEN 1 ELSE 0)],
     last_degree |-> degree]

NoParent == -1

MinOf(a, b) == IF a < b THEN a ELSE b

RECURSIVE dfs_articulation(_, _, _, _, _, _), dfs_loop(_, _, _, _, _, _, _, _)
\* dfs_articulation: the search state (timer, visited, timing, low, ap) after the
\* visit of u reached from parent.
dfs_articulation(adj, n, u, parent, st, bl) ==
    LET t == st.timer + 1
        entered == [st EXCEPT !.timer = t, !.visited[u] = TRUE,
                              !.timing[u] = t, !.low[u] = t]
        r == dfs_loop(adj, n, u, parent, entered, bl, 0, 0)
    IN IF parent = NoParent /\ r.children > 1
       THEN [r.st EXCEPT !.ap[u] = TRUE]
       ELSE r.st

\* The loop over v of dfs_articulation, from v on, with the children counted so far.
dfs_loop(adj, n, u, parent, st, bl, v, children) ==
    IF v = n THEN [st |-> st, children |-> children]
    ELSE IF ~(u * n + v \in adj) /\ ~(v * n + u \in adj)
    THEN dfs_loop(adj, n, u, parent, st, bl, v + 1, children)
    ELSE IF bl[v]
    THEN dfs_loop(adj, n, u, parent, st, bl, v + 1, children)
    ELSE IF parent # NoParent /\ v = parent
    THEN dfs_loop(adj, n, u, parent, st, bl, v + 1, children)
    ELSE IF st.visited[v]
    THEN dfs_loop(adj, n, u, parent,
                  [st EXCEPT !.low[u] = MinOf(@, st.timing[v])], bl, v + 1, children)
    ELSE LET sub == dfs_articulation(adj, n, v, u, st, bl)
             lowered == [sub EXCEPT !.low[u] = MinOf(@, sub.low[v])]
             marked == IF lowered.low[v] >= lowered.timing[u] /\ parent # NoParent
                       THEN [lowered EXCEPT !.ap[u] = TRUE]
                       ELSE lowered
         IN dfs_loop(adj, n, u, parent, marked, bl, v + 1, children + 1)

\* find_articulation_points: the search always starts at vertex 0.
find_articulation_points(adj, n, bl) ==
    dfs_articulation(adj, n, 0, NoParent,
        [timer   |-> 0,
         visited |-> [v \in 0..(n - 1) |-> FALSE],
         timing  |-> [v \in 0..(n - 1) |-> -1],
         low     |-> [v \in 0..(n - 1) |-> -1],
         ap      |-> [v \in 0..(n - 1) |-> FALSE]],
        bl).ap

RECURSIVE relabel_loop(_, _, _, _, _, _, _, _)
\* The loop of calculate_relabels from position pos down to 0: the labels.
relabel_loop(adj, size, degree, global_degree, last_degree, usedv, labels, pos) ==
    IF pos < 0 THEN labels
    ELSE LET ap == IF pos > 2
                   THEN find_articulation_points(adj, size, usedv)
                   ELSE [v \in 0..(size - 1) |-> FALSE]
             min_u == select_minimum_vertex(degree, last_degree, global_degree,
                                            usedv, ap, size)
             upd == update_degree(adj, size, degree, min_u)
         IN relabel_loop(adj, size, upd.degree, global_degree, upd.last_degree,
                         [usedv EXCEPT ![min_u] = TRUE],
                         [labels EXCEPT ![pos] = min_u], pos - 1)

\* A faulty variant of calculate_relabels: the positions are filled from 0 upward.
calculate_relabels_ascending(adj, size) ==
    LET labels == relabel_loop(adj, size, init_degrees(adj, size),
                      init_degrees(adj, size), init_degrees(adj, size),
                      [v \in 0..(size - 1) |-> FALSE],
                      [v \in 0..(size - 1) |-> 0], size - 1)
    IN [pos \in 0..(size - 1) |-> labels[size - 1 - pos]]

calculate_relabels(adj, size) ==
    relabel_loop(adj, size, init_degrees(adj, size), init_degrees(adj, size),
                 init_degrees(adj, size), [v \in 0..(size - 1) |-> FALSE],
                 [v \in 0..(size - 1) |-> 0], size - 1)

\* A faulty variant of relabel_adj: the two label lookups are exchanged.
relabel_adj_transposed(adj, size, labels) ==
    {f \in 0..(size * size - 1) :
        labels[f % size] * size + labels[f \div size] \in adj}

relabel_adj(adj, size, labels) ==
    {f \in 0..(size * size - 1) :
        labels[f \div size] * size + labels[f % size] \in adj}

relabel_orbits(orbs, size, labels) == [pos \in 0..(size - 1) |-> orbs[labels[pos]]]

\* The (idx, jdx) pairs symmetry_breaking_conditions visits, in its loop order: by
\* orbit in order of first appearance, then idx ascending, then jdx ascending.
orbit_pairs(orbs, size) ==
    LET firsts == {p \in 0..(size - 1) : \A q \in 0..(p - 1) : orbs[q] # orbs[p]}
        members(p) == AscSeq({q \in 0..(size - 1) : orbs[q] = orbs[p]})
        row(p, i) == [j \in 1..Len(members(p)) |-> <<members(p)[i], members(p)[j]>>]
        block(p) == Concat([i \in 1..Len(members(p)) |-> row(p, i)])
        order == AscSeq(firsts)
    IN Concat([o \in 1..Len(order) |-> block(order[o])])

RECURSIVE sbc_loop(_, _, _)
\* The nested loops of symmetry_breaking_conditions: every loop breaks once the
\* group holds exactly one permutation.
sbc_loop(pairs, cs, group) ==
    IF pairs = <<>> \/ Cardinality(group) = 1 THEN cs
    ELSE LET idx == Head(pairs)[1]
             jdx == Head(pairs)[2]
         IN IF idx < jdx
            THEN sbc_loop(Tail(pairs), Append(cs, Condition(idx, jdx)),
                          {g \in group : g[idx] < g[jdx]})
            ELSE sbc_loop(Tail(pairs), cs, group)

symmetry_breaking_conditions(aut, orbs, size) ==
    IF Cardinality(aut.automorphisms) = 0 THEN NoConditions
    ELSE SomeConditions(sbc_loop(orbit_pairs(orbs, size), <<>>, aut.automorphisms))

\* canonical_based_nauty: the relabelled adjacency, orbits and the conditions.
canonical_based_nauty(adj, size, aut) ==
    LET labels == calculate_relabels(adj, size)
        new_orbits == relabel_orbits(aut.orbits, size, labels)
    IN [adj        |-> relabel_adj(adj, size, labels),
        orbits     |-> new_orbits,
        conditions |-> symmetry_breaking_conditions(aut, new_orbits, size)]

(* ------------------------------ census --------------------------------- *)

\* Candidates::new
cand_new(size) ==
    [candidates |-> [i \in 0..(size - 1) |-> 0], blacklist |-> {}, n |-> 0,
     size |-> size]

\* A faulty variant of Candidates::insert: the membership test is left out.
cand_insert_unchecked(c, idx) ==
    [c EXCEPT !.candidates[c.n] = idx,
              !.blacklist = @ \cup {idx},
              !.n = @ + 1]

\* Candidates::insert
cand_insert(c, idx) ==
    IF idx \in c.blacklist THEN c
    ELSE [c EXCEPT !.candidates[c.n] = idx,
                   !.blacklist = @ \cup {idx},
                   !.n = @ + 1]

RECURSIVE cand_insert_all(_, _)
\* Candidates::insert of each element of a list in turn.
cand_insert_all(c, list) ==
    IF list = <<>> THEN c
    ELSE cand_insert_all(cand_insert(c, Head(list)), Tail(list))

\* Candidates::fill
cand_fill(c) == cand_insert_all(c, [i \in 1..c.size |-> i - 1])

\* Candidates::pop: the buffer after the pop and the popped value (-1 for None).
cand_pop(c) ==
    IF c.n = 0 THEN [c |-> c, idx |-> -1]
    ELSE [c |-> [c EXCEPT !.n = @ - 1], idx |-> c.candidates[c.n - 1]]

\* Candidates::clear
cand_clear(c) == [c EXCEPT !.n = 0, !.blacklist = {}]

\* The vertices a Candidates buffer holds (positions 0 .. n-1 of its stack).
cand_held(c) == {c.candidates[i] : i \in 0..(c.n - 1)}

\* A faulty variant of matches_structure: only the out_row is compared.
matches_structure_out_only(node, graph, usd, v) ==
    \A i \in 0..(Len(usd) - 1) :
        /\ At(usd, i) # v
        /\ out_contains(node, i) = is_connected(graph, At(usd, i), v)

matches_structure(node, graph, usd, v) ==
    \A i \in 0..(Len(usd) - 1) :
        /\ At(usd, i) # v
        /\ out_contains(node, i) = is_connected(graph, At(usd, i), v)
        /\ in_contains(node, i) = is_connected(graph, v, At(usd, i))

used_respects_conditions(usd, conds) ==
    IF conds.some
    THEN \A i \in 0..(Len(usd) - 1) : \A j \in (i + 1)..(Len(usd) - 1) :
             respects_any(conds.conds, i, j, At(usd, i), At(usd, j))
    ELSE TRUE

\* A faulty variant of the fold of minimal_possible_index: the smallest bound
\* is kept, not the largest.
RECURSIVE fold_label_min_smallest(_, _, _)
fold_label_min_smallest(cs, usd, acc) ==
    IF cs = <<>> THEN acc
    ELSE fold_label_min_smallest(Tail(cs), usd,
             IF cmax(Head(cs)) = Len(usd)
             THEN (IF acc = 0 \/ At(usd, cmin(Head(cs))) + 1 < acc
                   THEN At(usd, cmin(Head(cs))) + 1 ELSE acc)
             ELSE acc)

RECURSIVE fold_label_min(_, _, _)
fold_label_min(cs, usd, acc) ==
    IF cs = <<>> THEN acc
    ELSE fold_label_min(Tail(cs), usd,
             IF cmax(Head(cs)) = Len(usd)
             THEN Max2(acc, At(usd, cmin(Head(cs))) + 1)
             ELSE acc)

\* A faulty variant of minimal_possible_index: the first condition on the new
\* position decides, not the largest bound.
minimal_possible_index_first(usd, conds) ==
    IF conds.some
    THEN LET hits == SelectSeq(conds.conds, LAMBDA c : cmax(c) = Len(usd))
         IN IF hits = <<>> THEN 0 ELSE At(usd, cmin(Head(hits))) + 1
    ELSE 0

minimal_possible_index(usd, conds) ==
    IF conds.some THEN fold_label_min(conds.conds, usd, 0) ELSE 0

\* A faulty variant of build_candidates_conditionally: the neighbours are kept
\* only when strictly above label_min.
build_candidates_above_label_min(graph, usd, cand, bl, conds) ==
    IF ~used_respects_conditions(usd, conds) THEN cand
    ELSE LET label_min == minimal_possible_index(usd, conds)
         IN IF Len(usd) = 0 THEN cand_fill(cand)
            ELSE cand_insert_all(cand,
                     Concat([i \in 1..Len(usd) |->
                         SelectSeq(fast_neighbors(graph, usd[i]),
                                   LAMBDA n : n > label_min /\ n \notin bl)]))

\* build_candidates_conditionally: the candidate buffer it leaves.
build_candidates_conditionally(graph, usd, cand, bl, conds) ==
    IF ~used_respects_conditions(usd, conds) THEN cand
    ELSE LET label_min == minimal_possible_index(usd, conds)
         IN IF Len(usd) = 0 THEN cand_fill(cand)
            ELSE cand_insert_all(cand,
                     Concat([i \in 1..Len(usd) |->
                         SelectSeq(fast_neighbors(graph, usd[i]),
                                   LAMBDA n : n >= label_min /\ n \notin bl)]))

RECURSIVE pop_loop(_, _, _, _, _)
pop_loop(node, usd, graph, cand, vertices) ==
    LET r == cand_pop(cand)
    IN IF r.idx = -1
       THEN [vertices |-> vertices, cand |-> cand_clear(r.c)]
       ELSE pop_loop(node, usd, graph, r.c,
                IF matches_structure(node, graph, usd, r.idx)
                THEN Append(vertices, r.idx) ELSE vertices)

\* build_vertices: the accepted vertices in pop order, and the cleared buffer.
build_vertices(node, usd, graph, cand) == pop_loop(node, usd, graph, cand, <<>>)

(* ------------------------------ inputs --------------------------------- *)

\* The pattern library offered to the build: directed graphs as the canonical
\* labelling oracle hands them over (n vertices, a set of directed edges).
Cycle3 == [n |-> 3, edges |-> {<<0, 1>>, <<1, 2>>, <<2, 0>>}]

InStar == [n |-> 3, edges |-> {<<1, 0>>, <<2, 0>>}]

Triangle ==
    [n |-> 3, edges |-> {<<0, 1>>, <<1, 0>>, <<0, 2>>, <<2, 0>>, <<1, 2>>, <<2, 1>>}]

Path3 == [n |-> 3, edges |-> {<<0, 1>>, <<1, 0>>, <<1, 2>>, <<2, 1>>}]

Vee == [n |-> 3, edges |-> {<<0, 1>>, <<1, 0>>, <<0, 2>>, <<1, 2>>}]

Edge2 == [n |-> 2, edges |-> {<<0, 1>>}]

Split3 == [n |-> 3, edges |-> {<<0, 1>>, <<1, 0>>}]

Catalog == <<Cycle3, InStar, Triangle, Path3, Vee, Edge2, Split3>>

PatternIds == 1..Len(Catalog)

\* The host edge lists: at most MaxHostEdges directed edges between distinct
\* vertices drawn from HostVertices.
HostVertices == {0, 1, 2}

HostPairs == {e \in HostVertices \X HostVertices : e[1] # e[2]}

HostEdgeLists == {es \in SUBSET HostPairs : Cardinality(es) <= MaxHostEdges}

\* build_gtrie, one pattern: the Bitgraph with the relabelled adjacency and the
\* conditions handed to Gtrie::insert.
canonical(raw) ==
    LET bgraph == from_graph(raw.n, raw.edges)
        cbn == canonical_based_nauty(bgraph.adj, raw.n, AutoGroups(bgraph.adj, raw.n))
    IN [graph |-> overwrite_adjacency(bgraph, cbn.adj), conditions |-> cbn.conditions]

\* The canonical form of every catalog pattern.
Canonical == [i \in PatternIds |-> canonical(Catalog[i])]

RECURSIVE build_trie(_)
\* The trie after the patterns of the given catalog indices are inserted in order.
build_trie(ids) ==
    IF ids = <<>> THEN EmptyTrie
    ELSE insert(build_trie(SubSeq(ids, 1, Len(ids) - 1)),
                Canonical[ids[Len(ids)]].graph, Canonical[ids[Len(ids)]].conditions)

(* ------------------------------ state ---------------------------------- *)

VARIABLES
    trie,          \* the arena of GtrieNodes; trie[Root] is the root
    inserted,      \* the catalog indices inserted so far, in order
    phase,         \* "build", "census" or "done"
    host,          \* the host Bitgraph of the census
    used,          \* the stack of host vertices assigned to positions 0, 1, ...
    blacklist,     \* the bitset of host vertices in used
    candidates,    \* the reusable Candidates buffer
    stack,         \* the active calls of match_child_conditionally, innermost last
    total_matches, \* the running sum of matches
    call,          \* the operation under unit exercise and its input
    result         \* what that operation returned

vars == <<trie, inserted, phase, host, used, blacklist, candidates, stack,
          total_matches, call, result>>

\* No operation is under unit exercise; nothing has been returned.
NoCall == [fn |-> "none"]

NoResult == [done |-> FALSE]

Frame(node, pc) == [node |-> node, pc |-> pc, vertices |-> <<>>, v |-> -1,
                    kids |-> <<>>]

Top == stack[Len(stack)]

SetTop(f) == [stack EXCEPT ![Len(stack)] = f]

Init ==
    /\ trie = EmptyTrie
    /\ inserted = <<>>
    /\ phase = "build"
    /\ host = from_graph(0, {})
    /\ used = <<>>
    /\ blacklist = {}
    /\ candidates = cand_new(0)
    /\ stack = <<>>
    /\ total_matches = 0
    /\ call = NoCall
    /\ result = NoResult

\* build_gtrie: one more pattern is canonicalised and inserted.
Insert(i) ==
    /\ phase = "build"
    /\ Len(inserted) < MaxInserts
    /\ Catalog[i].n <= MaxDepth
    /\ trie' = insert(trie, Canonical[i].graph, Canonical[i].conditions)
    /\ inserted' = Append(inserted, i)
    /\ UNCHANGED <<call, result, phase, host, used, blacklist, candidates, stack, total_matches>>

\* enumerate_subgraphs: the host is loaded and the census starts at the root.
StartCensus(es) ==
    /\ phase = "build"
    /\ phase' = "census"
    /\ host' = from_graph(node_count(es), es)
    /\ used' = <<>>
    /\ blacklist' = {}
    /\ candidates' = cand_new(node_count(es))
    /\ stack' = <<[Frame(Root, "kids") EXCEPT !.kids = trie[Root].children]>>
    /\ UNCHANGED <<call, result, trie, inserted, total_matches>>

\* match_child_conditionally, entry: build_candidates_conditionally.
EnterMatch ==
    /\ phase = "census" /\ stack # <<>> /\ Top.pc = "enter"
    /\ candidates' = build_candidates_conditionally(host, used, candidates,
                         blacklist, conditions(trie[Top.node]))
    /\ stack' = SetTop([Top EXCEPT !.pc = "built"])
    /\ UNCHANGED <<call, result, trie, inserted, phase, host, used, blacklist, total_matches>>

\* build_vertices: the candidates are popped and filtered, the buffer cleared.
BuildVertices ==
    /\ phase = "census" /\ stack # <<>> /\ Top.pc = "built"
    /\ LET r == build_vertices(trie[Top.node], used, host, candidates)
       IN /\ candidates' = r.cand
          /\ stack' = SetTop([Top EXCEPT !.pc = "loop", !.vertices = r.vertices])
    /\ UNCHANGED <<call, result, trie, inserted, phase, host, used, blacklist, total_matches>>

\* for v in vertices: used.push(v); blacklist.insert(v).
PushVertex ==
    /\ phase = "census" /\ stack # <<>> /\ Top.pc = "loop" /\ Top.vertices # <<>>
    /\ used' = Append(used, Head(Top.vertices))
    /\ blacklist' = blacklist \cup {Head(Top.vertices)}
    /\ stack' = SetTop([Top EXCEPT !.pc = "body", !.v = Head(Top.vertices),
                                   !.vertices = Tail(Top.vertices)])
    /\ UNCHANGED <<call, result, trie, inserted, phase, host, candidates, total_matches>>

\* A faulty variant of FoundGraph: after the increment the children are visited
\* as at a non-terminal node.
FoundGraph_visits_children ==
    /\ phase = "census" /\ stack # <<>> /\ Top.pc = "body"
    /\ is_graph(trie[Top.node])
    /\ trie' = [trie EXCEPT ![Top.node] = increment_frequency(@)]
    /\ total_matches' = total_matches + 1
    /\ stack' = SetTop([Top EXCEPT !.pc = "kids", !.kids = trie[Top.node].children])
    /\ UNCHANGED <<call, result, inserted, phase, host, used, blacklist, candidates>>

\* node.is_graph(): the frequency and the running total are incremented.
FoundGraph ==
    /\ phase = "census" /\ stack # <<>> /\ Top.pc = "body"
    /\ is_graph(trie[Top.node])
    /\ trie' = [trie EXCEPT ![Top.node] = increment_frequency(@)]
    /\ total_matches' = total_matches + 1
    /\ stack' = SetTop([Top EXCEPT !.pc = "pop"])
    /\ UNCHANGED <<call, result, inserted, phase, host, used, blacklist, candidates>>

\* otherwise the children are visited in child-list order.
VisitChildren ==
    /\ phase = "census" /\ stack # <<>> /\ Top.pc = "body"
    /\ ~is_graph(trie[Top.node])
    /\ stack' = SetTop([Top EXCEPT !.pc = "kids", !.kids = trie[Top.node].children])
    /\ UNCHANGED <<call, result, trie, inserted, phase, host, used, blacklist, candidates,
                   total_matches>>

\* match_child_conditionally(c, ...) for the next child.
Descend ==
    /\ phase = "census" /\ stack # <<>> /\ Top.pc = "kids" /\ Top.kids # <<>>
    /\ stack' = Append(SetTop([Top EXCEPT !.kids = Tail(Top.kids)]),
                       Frame(Head(Top.kids), "enter"))
    /\ UNCHANGED <<call, result, trie, inserted, phase, host, used, blacklist, candidates,
                   total_matches>>

\* A faulty variant of PopVertex: the vertex is left on used.
PopVertex_keeps_vertex ==
    /\ phase = "census" /\ Len(stack) > 1
    /\ \/ Top.pc = "pop"
       \/ Top.pc = "kids" /\ Top.kids = <<>>
    /\ blacklist' = blacklist \ {Top.v}
    /\ stack' = SetTop([Top EXCEPT !.pc = "loop"])
    /\ UNCHANGED <<call, result, trie, inserted, phase, host, candidates, total_matches, used>>

\* A faulty variant of PopVertex: the blacklist bit is left set.
PopVertex_keeps_bit ==
    /\ phase = "census" /\ Len(stack) > 1
    /\ \/ Top.pc = "pop"
       \/ Top.pc = "kids" /\ Top.kids = <<>>
    /\ used' = SubSeq(used, 1, Len(used) - 1)
    /\ stack' = SetTop([Top EXCEPT !.pc = "loop"])
    /\ UNCHANGED <<call, result, trie, inserted, phase, host, candidates, total_matches, blacklist>>

\* used.pop(); blacklist.set(v, false).
PopVertex ==
    /\ phase = "census" /\ Len(stack) > 1
    /\ \/ Top.pc = "pop"
       \/ Top.pc = "kids" /\ Top.kids = <<>>
    /\ used' = SubSeq(used, 1, Len(used) - 1)
    /\ blacklist' = blacklist \ {Top.v}
    /\ stack' = SetTop([Top EXCEPT !.pc = "loop"])
    /\ UNCHANGED <<call, result, trie, inserted, phase, host, candidates, total_matches>>

\* The loop over the vertices is over: the call returns.
Return ==
    /\ phase = "census" /\ Len(stack) > 1
    /\ Top.pc = "loop" /\ Top.vertices = <<>>
    /\ stack' = SubSeq(stack, 1, Len(stack) - 1)
    /\ UNCHANGED <<call, result, trie, inserted, phase, host, used, blacklist, candidates,
                   total_matches>>

\* Every child of the root has been matched: census returns.
CensusDone ==
    /\ phase = "census" /\ Len(stack) = 1
    /\ Top.pc = "kids" /\ Top.kids = <<>>
    /\ phase' = "done"
    /\ stack' = <<>>
    /\ UNCHANGED <<call, result, trie, inserted, host, used, blacklist, candidates, total_matches>>

Next ==
    \/ \E i \in PatternIds : Insert(i)
    \/ \E es \in HostEdgeLists : StartCensus(es)
    \/ EnterMatch
    \/ BuildVertices
    \/ PushVertex
    \/ FoundGraph
    \/ VisitChildren
    \/ Descend
    \/ PopVertex
    \/ Return
    \/ CensusDone

Spec == Init /\ [][Next]_vars

(* ------------------------------ unit exercise -------------------------- *)

\* The operations that are functions of their input are exercised one call at a
\* time: call holds the operation and its input, result what it returned.

RECURSIVE encode(_)
\* A packed adjacency read as a binary number.
encode(adj) ==
    IF adj = {} THEN 0
    ELSE LET f == CHOOSE x \in adj : TRUE
         IN 2 ^ f + encode(adj \ {f})

\* The graph with vertex p[u] in the place of u.
renumbered(adj, n, p) == {p[f \div n] * n + p[f % n] : f \in adj}

\* The canonical labelling oracle (CanonLabeling): every graph of an isomorphism
\* class is given the same labelling of the class. Which one is the oracle's
\* choice: here the labelling of least encoding, renumbered by key.
NautyLabeling(adj, n, key) ==
    LET forms == {renumbered(adj, n, p) : p \in PermVectors(n)}
        least == CHOOSE a \in forms : \A b \in forms : encode(a) <= encode(b)
    IN renumbered(least, n, key)

\* The edges of a packed adjacency as pairs.
unpack(adj, n) == {<<f \div n, f % n>> : f \in adj}

\* build_gtrie, one pattern, the oracle's labelling included.
canonicalize(adj, n, key) ==
    canonical([n |-> n, edges |-> unpack(NautyLabeling(adj, n, key), n)])

\* The pattern graphs handed to the canonicaliser: every directed graph without
\* loops on 2 or 3 vertices, and on 4 vertices every way of directing the
\* undirected edges 0-2, 1-0, 1-2, 2-3 (one way, the other, or both).
PatternSizes == {2, 3}

LooplessGraphs(n) == SUBSET {f \in 0..(n * n - 1) : f \div n # f % n}

Directions(u, v) == {{u * 4 + v}, {v * 4 + u}, {u * 4 + v, v * 4 + u}}

Kites ==
    {a \cup b \cup c \cup d :
        a \in Directions(0, 2), b \in Directions(1, 0),
        c \in Directions(1, 2), d \in Directions(2, 3)}

\* The input of the test articulation_points_no_used_a.
Kite == {0 * 4 + 2, 1 * 4 + 0, 1 * 4 + 2, 2 * 4 + 3}

CanonicalizeCalls ==
    UNION {{[fn |-> "canonicalize", n |-> n, adj |-> adj, key |-> key] :
               adj \in LooplessGraphs(n), key \in PermVectors(n)} : n \in PatternSizes}
      \cup {[fn |-> "canonicalize", n |-> 4, adj |-> adj, key |-> key] :
               adj \in Kites, key \in PermVectors(4)}

RelabelCalls == {[fn |-> "calculate_relabels", n |-> 4, adj |-> adj] : adj \in Kites}

\* Host files: up to MaxLines lines of two ids, 0 (not a valid id) included.
FileIds == 0..Cardinality(HostVertices)

Files == UNION {[1..k -> FileIds \X FileIds] : k \in 0..MaxLines}

LoadCalls ==
    {[fn |-> "load", lines |-> lines, include_loops |-> b] :
        lines \in Files, b \in BOOLEAN}

\* Edge lists for Bitgraph::from_graph, self-loops and repeats included.
EdgeLists == UNION {[1..k -> HostVertices \X HostVertices] : k \in 0..MaxLines}

FromGraphCalls == {[fn |-> "from_graph", edges |-> es] : es \in EdgeLists}

\* Candidate buffers for hosts of one vertex up to all of HostVertices.
CandidatesCalls ==
    {[fn |-> "candidates", size |-> n] : n \in 1..Cardinality(HostVertices)}

\* Inserts into a trie of max_depth 1 .. MaxDepth that is empty or holds one
\* catalog pattern (which fits it); the pattern offered may be too large.
InsertCalls ==
    {c \in [fn : {"insert"}, max_depth : 1..MaxDepth,
            stored : {<<>>} \cup {<<i>> : i \in PatternIds}, pattern : PatternIds] :
        \A k \in 1..Len(c.stored) : Catalog[c.stored[k]].n <= c.max_depth}

\* The adjacency matrices handed to the relabelling one iteration at a time:
\* every matrix on 1 to 3 vertices (loops included), every loop-free matrix on
\* 4 vertices and every symmetric loop-free matrix on 5 vertices.
AllGraphs(n) == SUBSET (0..(n * n - 1))

SymmetricGraphs(n) ==
    {UNION {{e[1] * n + e[2], e[2] * n + e[1]} : e \in es} :
        es \in SUBSET {e \in (0..(n - 1)) \X (0..(n - 1)) : e[1] < e[2]}}

RelabelGraphs(n) ==
    IF n <= 3 THEN AllGraphs(n)
    ELSE IF n = 4 THEN LooplessGraphs(4)
    ELSE SymmetricGraphs(n)

RelabelSizes == {1, 2, 3, 4, 5}

RelabelStepCalls ==
    UNION {{[fn |-> "relabel_loop", n |-> n, adj |-> adj] : adj \in RelabelGraphs(n)} :
              n \in RelabelSizes}

\* Adjacency matrices for find_articulation_points: every matrix on 1 to 3
\* vertices, every symmetric loop-free matrix on 4 and 5 vertices and the
\* directed 4-vertex family of the tests. The used mask is drawn at the call.
ArticulationGraphs(n) ==
    IF n <= 3 THEN AllGraphs(n)
    ELSE IF n = 4 THEN SymmetricGraphs(4) \cup Kites
    ELSE SymmetricGraphs(n)

ArticulationCalls ==
    UNION {{[fn |-> "find_articulation_points", n |-> n, adj |-> adj] :
               adj \in ArticulationGraphs(n)} : n \in RelabelSizes}

\* Patterns for symmetry_breaking_conditions: the pattern graphs of the
\* canonicaliser and every symmetric loop-free graph on 4 vertices.
SymmetryCalls ==
    UNION {{[fn |-> "symmetry_breaking_conditions", n |-> n, adj |-> adj] :
               adj \in LooplessGraphs(n)} : n \in PatternSizes}
      \cup {[fn |-> "symmetry_breaking_conditions", n |-> 4, adj |-> adj] :
               adj \in SymmetricGraphs(4) \cup Kites}

\* Patterns handed to Gtrie::insert as they are: every directed graph on 1 to 3
\* vertices, self-loops included.
PatternInsertSizes == {1, 2, 3}

PatternInsertCalls ==
    UNION {{[fn |-> "insert_pattern", n |-> n, adj |-> adj] : adj \in AllGraphs(n)} :
              n \in PatternInsertSizes}

UnitCalls ==
    CanonicalizeCalls \cup RelabelCalls \cup LoadCalls \cup FromGraphCalls
        \cup CandidatesCalls \cup InsertCalls \cup RelabelStepCalls \cup ArticulationCalls \cup SymmetryCalls \cup PatternInsertCalls

UnitInit ==
    /\ trie = EmptyTrie
    /\ inserted = <<>>
    /\ phase = "unit"
    /\ host = from_graph(0, {})
    /\ used = <<>>
    /\ blacklist = {}
    /\ stack = <<>>
    /\ total_matches = 0
    /\ call \in UnitCalls
    /\ candidates = cand_new(IF call.fn = "candidates" THEN call.size ELSE 0)
    /\ result = NoResult

\* build_gtrie on one pattern, and again on the graph it produced.
Canonicalize ==
    /\ call.fn = "canonicalize" /\ ~result.done
    /\ LET out == canonicalize(call.adj, call.n, call.key)
       IN result' = [done  |-> TRUE,
                     out   |-> out,
                     again |-> canonicalize(out.graph.adj, call.n, call.key)]
    /\ UNCHANGED <<trie, inserted, phase, host, used, blacklist, candidates, stack,
                   total_matches, call>>

\* calculate_relabels on the degrees init_degrees gives.
Relabel ==
    /\ call.fn = "calculate_relabels" /\ ~result.done
    /\ result' = [done |-> TRUE, labels |-> calculate_relabels(call.adj, call.n)]
    /\ UNCHANGED <<trie, inserted, phase, host, used, blacklist, candidates, stack,
                   total_matches, call>>

\* load_numeric_graph_from_buffer on a host file.
Load ==
    /\ call.fn = "load" /\ ~result.done
    /\ LET r == load_numeric_graph_from_buffer(call.lines, call.include_loops)
       IN result' = [done |-> TRUE, ok |-> r.ok, edges |-> r.edges]
    /\ UNCHANGED <<trie, inserted, phase, host, used, blacklist, candidates, stack,
                   total_matches, call>>

\* Graph::from_edges and Bitgraph::from_graph on an edge list.
FromGraph ==
    /\ call.fn = "from_graph" /\ ~result.done
    /\ result' = [done  |-> TRUE,
                  graph |-> from_graph(node_count(Range(call.edges)),
                                       Range(call.edges))]
    /\ UNCHANGED <<trie, inserted, phase, host, used, blacklist, candidates, stack,
                   total_matches, call>>

\* What a call on the Candidates buffer leaves in result: the operation, the
\* buffer it was called on and the value popped (-1 for None and for the others).
Called(op, idx) == [done |-> TRUE, op |-> op, before |-> candidates, idx |-> idx]

\* Candidates::insert(v) for a vertex of the host.
CandInsert(v) ==
    /\ call.fn = "candidates" /\ v < call.size
    /\ candidates' = cand_insert(candidates, v)
    /\ result' = Called("insert", -1)
    /\ UNCHANGED <<trie, inserted, phase, host, used, blacklist, stack,
                   total_matches, call>>

\* Candidates::fill
CandFill ==
    /\ call.fn = "candidates"
    /\ candidates' = cand_fill(candidates)
    /\ result' = Called("fill", -1)
    /\ UNCHANGED <<trie, inserted, phase, host, used, blacklist, stack,
                   total_matches, call>>

\* Candidates::pop
CandPop ==
    /\ call.fn = "candidates"
    /\ candidates' = cand_pop(candidates).c
    /\ result' = Called("pop", cand_pop(candidates).idx)
    /\ UNCHANGED <<trie, inserted, phase, host, used, blacklist, stack,
                   total_matches, call>>

\* Candidates::clear
CandClear ==
    /\ call.fn = "candidates"
    /\ candidates' = cand_clear(candidates)
    /\ result' = Called("clear", -1)
    /\ UNCHANGED <<trie, inserted, phase, host, used, blacklist, stack,
                   total_matches, call>>

\* Gtrie::insert of a catalog pattern into the trie that holds call.stored.
GtrieInsert ==
    /\ call.fn = "insert" /\ ~result.done
    /\ LET r == insert_asserting(call.max_depth, build_trie(call.stored),
                                 Canonical[call.pattern].graph,
                                 Canonical[call.pattern].conditions)
       IN result' = [done |-> TRUE, ok |-> r.ok, nodes |-> r.nodes]
    /\ UNCHANGED <<trie, inserted, phase, host, used, blacklist, candidates, stack,
                   total_matches, call>>

\* canonical_based_nauty up to the call of calculate_relabels: the vectors are
\* allocated and init_degrees has run.  seen keeps what the last iteration's
\* selection was made from.
RelabelStart ==
    /\ call.fn = "relabel_loop" /\ result = NoResult
    /\ result' = [done          |-> FALSE,
                  panicked      |-> FALSE,
                  pos           |-> call.n - 1,
                  degree        |-> init_degrees(call.adj, call.n),
                  global_degree |-> init_degrees(call.adj, call.n),
                  last_degree   |-> init_degrees(call.adj, call.n),
                  usedv         |-> [v \in 0..(call.n - 1) |-> FALSE],
                  labels        |-> [v \in 0..(call.n - 1) |-> 0],
                  min_u         |-> -1,
                  seen          |-> <<>>]
    /\ UNCHANGED <<trie, inserted, phase, host, used, blacklist, candidates, stack,
                   total_matches, call>>

\* One iteration of the loop of calculate_relabels; the assertion of
\* select_minimum_vertex ends the run when no vertex was selected.
RelabelStep ==
    /\ call.fn = "relabel_loop" /\ result # NoResult /\ ~result.done
    /\ LET ap == IF result.pos > 2
                 THEN find_articulation_points(call.adj, call.n, result.usedv)
                 ELSE [v \in 0..(call.n - 1) |-> FALSE]
           min_u == select_minimum_vertex(result.degree, result.last_degree,
                        result.global_degree, result.usedv, ap, call.n)
           upd == update_degree(call.adj, call.n, result.degree, min_u)
           seen == [degree |-> result.degree, last_degree |-> result.last_degree,
                    global_degree |-> result.global_degree,
                    usedv |-> result.usedv, ap |-> ap, pos |-> result.pos]
       IN result' =
              IF min_u < 0
              THEN [result EXCEPT !.done = TRUE, !.panicked = TRUE,
                                  !.min_u = min_u, !.seen = seen]
              ELSE [result EXCEPT !.done = (result.pos = 0),
                                  !.pos = result.pos - 1,
                                  !.degree = upd.degree,
                                  !.last_degree = upd.last_degree,
                                  !.usedv[min_u] = TRUE,
                                  !.labels[result.pos] = min_u,
                                  !.min_u = min_u,
                                  !.seen = seen]
    /\ UNCHANGED <<trie, inserted, phase, host, used, blacklist, candidates, stack,
                   total_matches, call>>

\* find_articulation_points on an adjacency and a used mask.
FindArticulationPoints ==
    /\ call.fn = "find_articulation_points" /\ ~result.done
    /\ \E bl \in [0..(call.n - 1) -> BOOLEAN] :
           result' = [done |-> TRUE,
                      bl   |-> bl,
                      ap   |-> find_articulation_points(call.adj, call.n, bl)]
    /\ UNCHANGED <<trie, inserted, phase, host, used, blacklist, candidates, stack,
                   total_matches, call>>

\* A faulty variant of sbc_step: the loops do not break when one permutation is
\* left.
sbc_step_never_breaks(st) ==
    IF st.pairs = <<>> THEN [st EXCEPT !.done = TRUE]
    ELSE LET idx == Head(st.pairs)[1]
             jdx == Head(st.pairs)[2]
         IN IF idx < jdx
            THEN [st EXCEPT !.pairs = Tail(@),
                            !.cs = Append(@, Condition(idx, jdx)),
                            !.sizes = Append(@, Cardinality(st.group)),
                            !.group = {g \in @ : g[idx] < g[jdx]}]
            ELSE [st EXCEPT !.pairs = Tail(@)]

\* One pass through the innermost loop body of symmetry_breaking_conditions:
\* the break tests, then the (idx, jdx) pair.  sizes records how many
\* permutations the group held when each condition was pushed.
sbc_step(st) ==
    IF st.pairs = <<>> \/ Cardinality(st.group) = 1 THEN [st EXCEPT !.done = TRUE]
    ELSE LET idx == Head(st.pairs)[1]
             jdx == Head(st.pairs)[2]
         IN IF idx < jdx
            THEN [st EXCEPT !.pairs = Tail(@),
                            !.cs = Append(@, Condition(idx, jdx)),
                            !.sizes = Append(@, Cardinality(st.group)),
                            !.group = {g \in @ : g[idx] < g[jdx]}]
            ELSE [st EXCEPT !.pairs = Tail(@)]

\* canonical_based_nauty up to the loops of symmetry_breaking_conditions: the
\* relabelled orbits, the group cloned from the automorphisms, no condition yet.
SymmetryStart ==
    /\ call.fn = "symmetry_breaking_conditions" /\ result = NoResult
    /\ LET aut == AutoGroups(call.adj, call.n)
           orbs == relabel_orbits(aut.orbits, call.n,
                                  calculate_relabels(call.adj, call.n))
       IN result' = [done  |-> FALSE,
                     orbs  |-> orbs,
                     pairs |-> orbit_pairs(orbs, call.n),
                     cs    |-> <<>>,
                     sizes |-> <<>>,
                     start |-> aut.automorphisms,
                     group |-> aut.automorphisms]
    /\ UNCHANGED <<trie, inserted, phase, host, used, blacklist, candidates, stack,
                   total_matches, call>>

\* The loops of symmetry_breaking_conditions, one (idx, jdx) at a time.
SymmetryStep ==
    /\ call.fn = "symmetry_breaking_conditions" /\ result # NoResult /\ ~result.done
    /\ result' = sbc_step(result)
    /\ UNCHANGED <<trie, inserted, phase, host, used, blacklist, candidates, stack,
                   total_matches, call>>

\* Gtrie::insert of the pattern of call.adj, without conditions, into an empty
\* trie.
InsertPattern ==
    /\ call.fn = "insert_pattern" /\ ~result.done
    /\ result' = [done  |-> TRUE,
                  nodes |-> insert(EmptyTrie,
                                   from_graph(call.n, unpack(call.adj, call.n)),
                                   NoConditions)]
    /\ UNCHANGED <<trie, inserted, phase, host, used, blacklist, candidates, stack,
                   total_matches, call>>

UnitNext ==
    \/ GtrieInsert
    \/ Canonicalize
    \/ Relabel
    \/ Load
    \/ FromGraph
    \/ \E v \in HostVertices : CandInsert(v)
    \/ CandFill
    \/ CandPop
    \/ CandClear
    \/ RelabelStart
    \/ RelabelStep
    \/ FindArticulationPoints
    \/ SymmetryStart
    \/ SymmetryStep
    \/ InsertPattern

UnitSpec == UnitInit /\ [][UnitNext]_vars

(* ------------------------------ census as a function ------------------- *)

RECURSIVE match_child_conditionally(_, _, _, _), match_vertices(_, _, _, _, _),
          match_children(_, _, _, _)
\* match_child_conditionally as a function of the arena: the arena it leaves.
match_child_conditionally(nodes, node, usd, graph) ==
    match_vertices(nodes, node, usd, graph,
        build_vertices(nodes[node], usd, graph,
            build_candidates_conditionally(graph, usd, cand_new(n_nodes(graph)),
                Range(usd), conditions(nodes[node]))).vertices)

\* The loop `for v in vertices` of match_child_conditionally.
match_vertices(nodes, node, usd, graph, vs) ==
    IF vs = <<>> THEN nodes
    ELSE match_vertices(
             IF is_graph(nodes[node])
             THEN [nodes EXCEPT ![node] = increment_frequency(@)]
             ELSE match_children(nodes, nodes[node].children,
                                 Append(usd, Head(vs)), graph),
             node, usd, graph, Tail(vs))

\* The loop `for c in node.iter_children_mut()`.
match_children(nodes, kids, usd, graph) ==
    IF kids = <<>> THEN nodes
    ELSE match_children(match_child_conditionally(nodes, Head(kids), usd, graph),
                        Tail(kids), usd, graph)

\* census: the matcher is started from each child of the root with nothing assigned.
census(nodes, graph) == match_children(nodes, nodes[Root].children, <<>>, graph)

(* ------------------------------ reading the trie ----------------------- *)

NodeIds(nodes) == 1..Len(nodes)

Terminals(nodes) == {id \in NodeIds(nodes) : nodes[id].is_graph}

ParentOf(nodes, id) ==
    CHOOSE q \in NodeIds(nodes) : id \in Range(nodes[q].children)

RECURSIVE PathOf(_, _)
\* The nodes from depth 1 down to id, in order.
PathOf(nodes, id) ==
    IF id = Root THEN <<>>
    ELSE Append(PathOf(nodes, ParentOf(nodes, id)), id)

\* The directed edges one node's rows stand for.
RowEdges(node) ==
    {<<u, node.depth - 1>> : u \in node.edge_out}
        \cup {<<node.depth - 1, u>> : u \in node.edge_in}

\* The pattern a node stores: the rows accumulated along its path.
PathAdj(nodes, id) ==
    LET path == PathOf(nodes, id)
    IN UNION {RowEdges(nodes[path[k]]) : k \in 1..Len(path)}

\* The directed edges of a Bitgraph as pairs.
EdgePairs(g) ==
    {e \in (0..(g.n - 1)) \X (0..(g.n - 1)) : is_connected(g, e[1], e[2])}

RECURSIVE SumFrequency(_, _)
SumFrequency(nodes, ids) ==
    IF ids = {} THEN 0
    ELSE LET id == CHOOSE x \in ids : TRUE
         IN nodes[id].frequency + SumFrequency(nodes, ids \ {id})

\* The frames of calls that hold an accepted vertex on used.
Holding(f) == f.pc \in {"body", "kids", "pop"}

InCensus == phase = "census" /\ stack # <<>>

(* ------------------------------ properties ----------------------------- *)

\* The step machine and the function agree on what a census leaves.
CensusAgrees ==
    phase = "done" => trie = census(build_trie(inserted), host)

TypeOK ==
    /\ phase \in {"build", "census", "done"}
    /\ Len(inserted) <= MaxInserts
    /\ \A id \in NodeIds(trie) : trie[id].depth <= MaxDepth

(* ------------------------------ C2 ------------------------------------- *)

\* C2: a frame that holds an accepted vertex v sits at depth d = its position on
\* used, v differs from every earlier vertex, and for every position i < d-1 the
\* node's out_row bit i says whether the host has the edge used[i] -> v and its
\* in_row bit i whether it has v -> used[i]; when a terminal's frequency has just
\* been incremented, the pattern stored on its path has the edge i -> j exactly
\* when the host has the edge used[i] -> used[j], for all distinct positions.
C2_ExtendsOnlyOnMatch ==
    InCensus =>
        \A s \in 2..Len(stack) : Holding(stack[s]) =>
            LET id == stack[s].node
                node == trie[id]
                d == node.depth
                v == stack[s].v
            IN /\ d = s - 1
               /\ Len(used) >= d
               /\ At(used, d - 1) = v
               /\ \A i \in 0..(d - 2) :
                      /\ At(used, i) # v
                      /\ out_contains(node, i) <=> is_connected(host, At(used, i), v)
                      /\ in_contains(node, i) <=> is_connected(host, v, At(used, i))
               /\ (stack[s].pc = "pop" /\ is_graph(node)) =>
                      \A i, j \in 0..(d - 1) : i # j =>
                          (<<i, j>> \in PathAdj(trie, id)
                              <=> is_connected(host, At(used, i), At(used, j)))

\* A terminal of depth 3 whose pattern has an edge and a missing edge has just counted.
C2_Witness ==
    /\ InCensus /\ Top.pc = "pop" /\ is_graph(trie[Top.node])
    /\ trie[Top.node].depth = 3
    /\ trie[Top.node].edge_in # trie[Top.node].edge_out
    /\ trie[Top.node].frequency > 0

(* ------------------------------ C3 ------------------------------------- *)

\* Some condition of conds whose two positions are assigned is violated by usd.
violates_condition(usd, conds) ==
    /\ conds.some
    /\ \E k \in 1..Len(conds.conds) :
           /\ cmin(conds.conds[k]) < cmax(conds.conds[k])
           /\ cmax(conds.conds[k]) < Len(usd)
           /\ ~(At(usd, cmin(conds.conds[k])) < At(usd, cmax(conds.conds[k])))

\* C3: when match_child_conditionally is entered at a node one of whose
\* conditions is violated by used, no candidate is built (so nothing is
\* accepted, no child is entered and no frequency is incremented).
C3_ViolationStopsTheBranch ==
    (InCensus /\ Top.pc = "built"
        /\ violates_condition(used, conditions(trie[Top.node])))
            => candidates.n = 0

(* ------------------------------ C4 ------------------------------------- *)

C5_UsedDistinctAndBlacklisted ==
    phase = "census" =>
        /\ \A i, j \in 1..Len(used) : i # j => used[i] # used[j]
        /\ \A v \in HostVertices : v \in blacklist <=> v \in Range(used)

\* Two vertices are on used after a third was pushed and popped.
C5_Witness ==
    /\ InCensus /\ Top.pc = "loop" /\ Top.v # -1
    /\ Len(used) = 2 /\ blacklist = Range(used)

(* ------------------------------ C1 ------------------------------------- *)

\* The one-to-one assignments of the positions 0 .. n-1 to the vertices of S.
Injections(n, S) ==
    {f \in [0..(n - 1) -> S] : \A a, b \in 0..(n - 1) : f[a] = f[b] => a = b}

\* The number of vertex subsets of graph whose induced subgraph is isomorphic to
\* the pattern with the given edges on n vertices.
InducedCount(graph, edges, n) ==
    Cardinality({S \in SUBSET (0..(n_nodes(graph) - 1)) :
        /\ Cardinality(S) = n
        /\ \E f \in Injections(n, S) :
               \A i, j \in 0..(n - 1) : i # j =>
                   (<<i, j>> \in edges <=> is_connected(graph, f[i], f[j]))})

\* The raw pattern is weakly connected.
weakly_connected(raw) ==
    \A S \in SUBSET (0..(raw.n - 1)) :
        (S # {} /\ S # 0..(raw.n - 1)) =>
            \E e \in raw.edges : (e[1] \in S) # (e[2] \in S)

\* Every inserted pattern is weakly connected and has MaxDepth vertices.
ConnectedLibrary ==
    \A k \in 1..Len(inserted) :
        Catalog[inserted[k]].n = MaxDepth /\ weakly_connected(Catalog[inserted[k]])

\* C1: after a census over a trie of connected patterns of one size, the
\* frequency of every terminal equals the number of vertex subsets of the host
\* that induce the terminal's pattern.
C1_FrequencyIsInducedCount ==
    (phase = "done" /\ ConnectedLibrary) =>
        \A t \in Terminals(trie) :
            trie[t].frequency = InducedCount(host, PathAdj(trie, t), trie[t].depth)

(* ------------------------------ C6 ------------------------------------- *)

\* The orders in which the patterns of ids can be inserted.
Orders(ids) ==
    {[k \in 1..Len(ids) |-> ids[p[k]]] :
        p \in {q \in [1..Len(ids) -> 1..Len(ids)] :
                  \A a, b \in 1..Len(ids) : q[a] = q[b] => a = b}}

\* The frequency the trie holds for the pattern graph (-1 when it has no terminal).
frequency_of(nodes, graph) ==
    LET ts == {t \in NodeIds(nodes) :
                  /\ nodes[t].is_graph
                  /\ nodes[t].depth = n_nodes(graph)
                  /\ PathAdj(nodes, t) = EdgePairs(graph)}
    IN IF ts = {} THEN -1 ELSE nodes[CHOOSE t \in ts : TRUE].frequency

\* C6: the frequency every inserted pattern has after the census is the one it
\* has when the same patterns are inserted in any other order and the census is
\* run on the same host.
C6_OrderIndependent ==
    phase = "done" =>
        \A o \in Orders(inserted) :
            LET other == census(build_trie(o), host)
            IN \A k \in 1..Len(inserted) :
                   frequency_of(other, Canonical[inserted[k]].graph)
                       = frequency_of(trie, Canonical[inserted[k]].graph)

\* Two different patterns that share a node were inserted and both were counted.
C6_Witness ==
    /\ phase = "done" /\ Len(inserted) = 2 /\ inserted[1] # inserted[2]
    /\ build_trie(inserted) # build_trie(<<inserted[2], inserted[1]>>)
    /\ \A k \in 1..2 : frequency_of(trie, Canonical[inserted[k]].graph) > 0
    /\ \E x \in NodeIds(trie) : x # Root /\ Len(trie[x].children) = 2

(* ------------------------------ C7 ------------------------------------- *)

\* The host vertices that pass the structural filter of node against usd.
structurally_valid(node, graph, usd) ==
    {v \in 0..(n_nodes(graph) - 1) : matches_structure(node, graph, usd, v)}

\* The node's rows have a bit at a position below the one being assigned.
has_connection(node) ==
    \E i \in 0..(node.depth - 2) : out_contains(node, i) \/ in_contains(node, i)

\* The matcher has just built the candidates at a node, with a non-empty used
\* that passed the condition check.
CandidatesBuilt ==
    /\ InCensus /\ Top.pc = "built" /\ used # <<>>
    /\ used_respects_conditions(used, conditions(trie[Top.node]))

\* C7 as stated: at every such entry the candidates hold every structurally
\* valid host vertex that is at least label_min.
C7_CandidatesComplete ==
    CandidatesBuilt =>
        \A v \in structurally_valid(trie[Top.node], host, used) :
            v >= minimal_possible_index(used, conditions(trie[Top.node]))
                => v \in cand_held(candidates)

\* C7 amended: the same, at the nodes whose rows connect the new position to an
\* earlier one.
C7_CandidatesCompleteWhenConnected ==
    (CandidatesBuilt /\ has_connection(trie[Top.node])) =>
        \A v \in structurally_valid(trie[Top.node], host, used) :
            v >= minimal_possible_index(used, conditions(trie[Top.node]))
                => v \in cand_held(candidates)

\* At a connected node with a positive label_min a structurally valid vertex is
\* among the candidates and another candidate is not structurally valid.
C7_Witness ==
    /\ CandidatesBuilt /\ has_connection(trie[Top.node])
    /\ minimal_possible_index(used, conditions(trie[Top.node])) > 0
    /\ structurally_valid(trie[Top.node], host, used) \cap cand_held(candidates) # {}
    /\ cand_held(candidates) \ structurally_valid(trie[Top.node], host, used) # {}

(* ------------------------------ C8 ------------------------------------- *)

\* The conditions a node holds, as a set (none when the field is None).
condition_set(node) ==
    IF node.conditions.some THEN Range(node.conditions.conds) ELSE {}

\* The terminals at or below node x.
terminals_below(nodes, x) ==
    {t \in Terminals(nodes) : x \in Range(PathOf(nodes, t))}

\* The inserted patterns whose terminal is t.
patterns_at(nodes, t) ==
    LET stored == PathAdj(nodes, t)
    IN {i \in Range(inserted) :
           /\ nodes[t].depth = n_nodes(Canonical[i].graph)
           /\ stored = EdgePairs(Canonical[i].graph)}

\* The condition sets of the inserted patterns whose terminal is t.
condition_sets_at(nodes, t) ==
    {condition_set(Canonical[i]) : i \in patterns_at(nodes, t)}

\* C8: a node holds only conditions that every inserted pattern with a terminal
\* in its subtree was inserted with, and a node's conditions are among each
\* child's conditions with max() below the node's depth.
C8_ConditionsCommonToSubtree ==
    /\ \A t \in Terminals(trie) :
           LET path == PathOf(trie, t)
               sets == condition_sets_at(trie, t)
           IN \A k \in 1..Len(path) : \A cs \in sets :
                  condition_set(trie[path[k]]) \subseteq cs
    /\ \A x \in NodeIds(trie) \ {Root} : \A c \in Range(trie[x].children) :
           condition_set(trie[x]) \subseteq
               {y \in condition_set(trie[c]) : cmax(y) < trie[x].depth}

\* A node that kept a condition has two terminals below it, and a child of it
\* holds a condition the node does not.
C8_Witness ==
    \E x \in NodeIds(trie) :
        /\ condition_set(trie[x]) # {}
        /\ Cardinality(terminals_below(trie, x)) >= 2
        /\ \E c \in Range(trie[x].children) :
               condition_set(trie[c]) # condition_set(trie[x])

(* ------------------------------ C9 ------------------------------------- *)

\* The conditions field of a node is None or a non-empty set of Condition(i, j)
\* with j below the node's depth.
conditions_well_formed(node) ==
    node.conditions.some =>
        /\ node.conditions.conds # <<>>
        /\ \A k \in 1..Len(node.conditions.conds) :
               cmax(node.conditions.conds[k]) < node.depth

\* C9: every node's conditions are None or a non-empty set of Condition(i, j)
\* with j below the node's depth, and a node whose conditions are None keeps None.
C9_ConditionsNoneOrNonEmpty ==
    /\ [](\A x \in NodeIds(trie) : conditions_well_formed(trie[x]))
    /\ [][\A x \in NodeIds(trie) :
              ~trie[x].conditions.some => ~trie'[x].conditions.some]_vars

\* A node's conditions were emptied by an intersection and are None, next to a
\* node that holds conditions.
C9_Witness ==
    /\ Len(inserted) = 2
    /\ \E x \in NodeIds(trie) : \E c \in Range(trie[x].children) :
           /\ x # Root
           /\ ~trie[x].conditions.some
           /\ \E y \in condition_set(trie[c]) : cmax(y) < trie[x].depth
    /\ \E x \in NodeIds(trie) : Len(trie[x].conditions.conds) >= 2

(* ------------------------------ C10 ------------------------------------ *)

\* The path to t stores the pattern graph row by row and ends at a terminal.
stores(nodes, t, graph) ==
    /\ nodes[t].is_graph
    /\ nodes[t].depth = n_nodes(graph)
    /\ LET path == PathOf(nodes, t)
       IN /\ Len(path) = n_nodes(graph)
          /\ \A d \in 1..n_nodes(graph) :
                 /\ nodes[path[d]].depth = d
                 /\ \A u \in 0..(d - 1) :
                        /\ out_contains(nodes[path[d]], u)
                               <=> is_connected(graph, u, d - 1)
                        /\ in_contains(nodes[path[d]], u)
                               <=> is_connected(graph, d - 1, u)

\* C10: every inserted pattern is stored on a root-to-terminal path of n nodes,
\* every terminal's accumulated rows are the adjacency of an inserted pattern,
\* and no step removes a node, changes its rows or clears a terminal flag.
C10_InsertStoresRows ==
    /\ [](/\ \A k \in 1..Len(inserted) :
                \E t \in NodeIds(trie) : stores(trie, t, Canonical[inserted[k]].graph)
          /\ \A t \in Terminals(trie) : patterns_at(trie, t) # {})
    /\ [][\A x \in NodeIds(trie) :
              /\ x \in NodeIds(trie')
              /\ trie'[x].depth = trie[x].depth
              /\ trie'[x].edge_in = trie[x].edge_in
              /\ trie'[x].edge_out = trie[x].edge_out
              /\ trie[x].is_graph => trie'[x].is_graph
              /\ Range(trie[x].children) \subseteq Range(trie'[x].children)]_vars

\* Two patterns share a prefix and end at different terminals, one of them above
\* the other.
C10_Witness ==
    /\ Len(inserted) = 2
    /\ Cardinality(Terminals(trie)) = 2
    /\ \E t \in Terminals(trie) : trie[t].children # <<>>

\* The adjacency matrices inserted so far, each with its size.
matrices_inserted ==
    {<<n_nodes(Canonical[i].graph), Canonical[i].graph.adj>> : i \in Range(inserted)}

\* Two children of one node with the same (out_row, in_row).
twin_children(nodes, x) ==
    \E a, b \in 1..Len(nodes[x].children) :
        /\ a # b
        /\ nodes[nodes[x].children[a]].edge_out = nodes[nodes[x].children[b]].edge_out
        /\ nodes[nodes[x].children[a]].edge_in = nodes[nodes[x].children[b]].edge_in

\* C11: after any sequence of inserts no node has two children with the same
\* (out_row, in_row), the terminal nodes are as many as the distinct adjacency
\* matrices inserted, and inserting a matrix that is already stored creates no
\* node and changes no child list.
C11_RowsStoredOnce ==
    /\ [](/\ \A x \in NodeIds(trie) : ~twin_children(trie, x)
          /\ Cardinality(Terminals(trie)) = Cardinality(matrices_inserted))
    /\ [][\A i \in PatternIds :
             (inserted' = Append(inserted, i)
                 /\ <<n_nodes(Canonical[i].graph), Canonical[i].graph.adj>>
                        \in matrices_inserted)
             => /\ Len(trie') = Len(trie)
                /\ \A x \in NodeIds(trie) : trie'[x].children = trie[x].children]_vars

\* Two inserted patterns share their first rows: a node below the root has two
\* children, each leading to a terminal.
C11_Witness ==
    /\ phase = "build"
    /\ Cardinality(Terminals(trie)) = 2
    /\ \E x \in NodeIds(trie) : x # Root /\ Len(trie[x].children) = 2

\* C12: canonicalisation is idempotent: canonicalising the adjacency it produced
\* gives the same adjacency and the same set of conditions.
C12_CanonicalizeIdempotent ==
    (call.fn = "canonicalize" /\ result.done) =>
        /\ result.again.graph.adj = result.out.graph.adj
        /\ result.again.conditions.some = result.out.conditions.some
        /\ Range(result.again.conditions.conds) = Range(result.out.conditions.conds)

\* A pattern whose canonical form differs from the graph handed in and carries
\* conditions has been canonicalised twice.
C12_Witness ==
    /\ call.fn = "canonicalize" /\ result.done
    /\ result.out.graph.adj # call.adj
    /\ result.out.conditions.some /\ result.out.conditions.conds # <<>>

\* The triangle is the only pattern inserted.
only_triangle ==
    inserted # <<>> /\ \A k \in 1..Len(inserted) : Catalog[inserted[k]] = Triangle

\* The assignment v of host vertices to positions satisfies every condition.
satisfies(conds, v) ==
    \A k \in 1..Len(conds.conds) :
        At(v, cmin(conds.conds[k])) < At(v, cmax(conds.conds[k]))

\* C13: the conditions synthesised for the triangle, as its terminal holds them,
\* are satisfied by (v0, v1, v2) exactly when v0 < v1 < v2, and after the census
\* of any host six times the triangle's frequency is its frequency when the
\* triangle is inserted without conditions.
C13_TriangleCountedOnce ==
    only_triangle =>
        /\ \A t \in Terminals(trie) :
               /\ trie[t].conditions.some
               /\ \A v \in HostVertices \X HostVertices \X HostVertices :
                      satisfies(trie[t].conditions, v) <=> (v[1] < v[2] /\ v[2] < v[3])
        /\ phase = "done" =>
               6 * frequency_of(trie, Canonical[inserted[1]].graph)
                 = frequency_of(
                       census(insert(EmptyTrie, Canonical[inserted[1]].graph,
                                     NoConditions), host),
                       Canonical[inserted[1]].graph)

\* The census of a host that contains a triangle is over and the triangle has
\* been counted.
C13_Witness ==
    /\ only_triangle /\ phase = "done"
    /\ frequency_of(trie, Canonical[inserted[1]].graph) > 0

\* The position the labels give vertex v.
position_of(labels, v) == CHOOSE pos \in DOMAIN labels : labels[pos] = v

\* calculate_relabels has returned for the input 0->2, 1->0, 1->2, 2->3.
KiteRelabelled == call.fn = "calculate_relabels" /\ call.adj = Kite /\ result.done

\* C14 as stated: for the input 0->2, 1->0, 1->2, 2->3 the relabelling places
\* vertex 2 at a position >= 2, and at neither position 3 nor position 0.
C14_ArticulationPointAtTwoOrMore ==
    KiteRelabelled =>
        /\ position_of(result.labels, 2) >= 2
        /\ position_of(result.labels, 2) \notin {0, 3}

\* C14 as the code has it: for that input the relabelling is a permutation that
\* places vertex 2 at position 0 (it is the last vertex chosen), not at position 3.
C14_ArticulationPointAtZero ==
    KiteRelabelled =>
        /\ \A v \in 0..3 : \E pos \in 0..3 : result.labels[pos] = v
        /\ position_of(result.labels, 2) = 0
        /\ position_of(result.labels, 2) # 3

C14_Witness ==
    /\ KiteRelabelled
    /\ find_articulation_points(call.adj, call.n, [v \in 0..3 |-> FALSE])
           = [v \in 0..3 |-> v = 2]

\* The vertices joined to u by an edge of the adjacency in either direction.
joined(g, u) ==
    {v \in 0..(n_nodes(g) - 1) : is_connected(g, u, v) \/ is_connected(g, v, u)}

\* C15: after overwrite_adjacency the neighbour views agree with the new
\* adjacency: undir_neighbors(u) is the set of vertices joined to u by an edge
\* in either direction and n_undir_neighbors(u) is its size.
C15_ViewsFollowNewAdjacency ==
    (call.fn = "canonicalize" /\ result.done) =>
        \A u \in 0..(n_nodes(result.out.graph) - 1) :
            /\ undir_neighbors(result.out.graph, u) = joined(result.out.graph, u)
            /\ n_undir_neighbors(result.out.graph, u)
                   = Cardinality(joined(result.out.graph, u))

\* C16: for every edge list, self-loops and repeated edges included,
\* is_connected(u, v) holds iff the edge u->v was given, undir_neighbors(u) is
\* the set of v other than u joined to u in either direction, and
\* n_undir_neighbors(u) is the size of undir_neighbors(u).
C16_ViewsOfFromGraph ==
    (call.fn = "from_graph" /\ result.done) =>
        LET g == result.graph
        IN /\ \A u, v \in 0..(n_nodes(g) - 1) :
                  is_connected(g, u, v) <=> <<u, v>> \in Range(call.edges)
           /\ \A u \in 0..(n_nodes(g) - 1) :
                  /\ undir_neighbors(g, u) = joined(g, u) \ {u}
                  /\ n_undir_neighbors(g, u) = Cardinality(undir_neighbors(g, u))

\* The edges the lines stand for, in line order, loops dropped unless included.
RECURSIVE edges_of(_, _)
edges_of(lines, include_loops) ==
    IF lines = <<>> THEN <<>>
    ELSE LET rest == edges_of(SubSeq(lines, 1, Len(lines) - 1), include_loops)
             last == lines[Len(lines)]
         IN IF last[1] = last[2] /\ ~include_loops THEN rest
            ELSE Append(rest, <<last[1] - 1, last[2] - 1>>)

\* C20: loading fails exactly when some line holds id 0 in either column,
\* whatever include_loops is and also for the line `0 0`; otherwise every line
\* u v yields the edge (u-1) -> (v-1), except that lines with u = v are dropped
\* when include_loops is false.
C20_LoaderRejectsZero ==
    (call.fn = "load" /\ result.done) =>
        /\ result.ok <=>
               \A k \in 1..Len(call.lines) :
                   call.lines[k][1] # 0 /\ call.lines[k][2] # 0
        /\ result.ok => result.edges = edges_of(call.lines, call.include_loops)

\* The file whose lines are `1 1` and `0 0` has been refused with loops
\* excluded.
C20_Witness ==
    /\ call.fn = "load" /\ result.done /\ ~result.ok
    /\ ~call.include_loops
    /\ call.lines = <<<<1, 1>>, <<0, 0>>>>

\* The vertices a Candidates buffer holds, oldest first.
held_stack(c) == [i \in 1..c.n |-> c.candidates[i - 1]]

\* C17: under any sequence of insert, fill, pop and clear the buffer never holds
\* a vertex twice, pop returns the vertex inserted last among those held (None
\* when none is held) and removes it, fill on an empty buffer makes it hold
\* exactly 0 .. size-1 in that order, and clear empties the stack and the
\* membership set.
C17_DeduplicatingStack ==
    call.fn = "candidates" =>
        /\ \A i, j \in 1..candidates.n :
               held_stack(candidates)[i] = held_stack(candidates)[j] => i = j
        /\ (result.done /\ result.op = "pop") =>
               IF result.before.n = 0
               THEN result.idx = -1 /\ candidates.n = 0
               ELSE /\ result.idx
                         = held_stack(result.before)[Len(held_stack(result.before))]
                    /\ held_stack(candidates)
                         = SubSeq(held_stack(result.before), 1, result.before.n - 1)
        /\ (result.done /\ result.op = "fill" /\ result.before.n = 0) =>
               held_stack(candidates) = [i \in 1..call.size |-> i - 1]
        /\ (result.done /\ result.op = "clear") =>
               candidates.n = 0 /\ candidates.blacklist = {}

\* Two arenas that differ in nothing but the frequencies of their nodes.
same_but_frequency(a, b) ==
    /\ Len(a) = Len(b)
    /\ \A x \in NodeIds(a) : [a[x] EXCEPT !.frequency = 0] = [b[x] EXCEPT !.frequency = 0]

\* C18: the census changes nothing but counters: no step of it changes the host
\* or any node's children, depth, rows, terminal flag, conditions or active
\* connections, and when it is over the trie is the one the inserts built but
\* for its frequencies.
C18_CensusChangesOnlyCounters ==
    /\ [](phase = "done" => same_but_frequency(trie, build_trie(inserted)))
    /\ [][phase = "census" =>
             /\ host' = host
             /\ same_but_frequency(trie', trie)
             /\ \A x \in NodeIds(trie) : trie'[x].frequency >= trie[x].frequency
             /\ total_matches' >= total_matches]_vars

\* The census is over and has changed a counter.
C18_Witness ==
    /\ phase = "done"
    /\ total_matches > 0
    /\ trie # build_trie(inserted)

\* C19: an insert of a pattern with more nodes than max_depth fails its
\* assertion and leaves every trie node as it was, none created; an insert of a
\* pattern with at most max_depth nodes does not fail.
C19_InsertChecksDepth ==
    (call.fn = "insert" /\ result.done) =>
        IF n_nodes(Canonical[call.pattern].graph) > call.max_depth
        THEN ~result.ok /\ result.nodes = build_trie(call.stored)
        ELSE /\ result.ok
             /\ \E t \in NodeIds(result.nodes) :
                    stores(result.nodes, t, Canonical[call.pattern].graph)

\* A pattern of three nodes has been refused by a trie of max_depth 2 that
\* holds a pattern.
C19_Witness ==
    /\ call.fn = "insert" /\ result.done /\ ~result.ok
    /\ call.stored # <<>>
    /\ n_nodes(Canonical[call.pattern].graph) = call.max_depth + 1

\* The iterations of calculate_relabels taken one at a time end with the labels
\* the function gives.
RelabelAgrees ==
    (call.fn = "relabel_loop" /\ result # NoResult /\ result.done
        /\ ~result.panicked) =>
        result.labels = calculate_relabels(call.adj, call.n)

\* An iteration of calculate_relabels has selected a vertex.
Selected ==
    call.fn = "relabel_loop" /\ result # NoResult /\ result.seen # <<>>
        /\ ~result.panicked

\* The vertices the selection could choose: unused and not flagged.
eligible(seen, n) == {u \in 0..(n - 1) : ~seen.usedv[u] /\ ~seen.ap[u]}

\* Lexicographic order on (current_degree, last_degree, total_degree).
triple_less(seen, u, w) ==
    \/ seen.degree[u] < seen.degree[w]
    \/ /\ seen.degree[u] = seen.degree[w]
       /\ seen.last_degree[u] < seen.last_degree[w]
    \/ /\ seen.degree[u] = seen.degree[w]
       /\ seen.last_degree[u] = seen.last_degree[w]
       /\ seen.global_degree[u] < seen.global_degree[w]

\* C21: at every iteration of calculate_relabels the selected vertex has a
\* lexicographically minimal (current_degree, last_degree, total_degree) among
\* the vertices that are unused and not flagged as articulation points.
C21_SelectedIsLexicographicMinimum ==
    Selected =>
        /\ result.min_u \in eligible(result.seen, call.n)
        /\ \A u \in eligible(result.seen, call.n) :
               ~triple_less(result.seen, u, result.min_u)

\* u and v are joined by an edge of adj in either direction.
adjacent(adj, n, u, v) == u * n + v \in adj \/ v * n + u \in adj

RECURSIVE reachable(_, _, _, _)
\* The vertices of S that paths inside S lead to from the vertices of seen.
reachable(adj, n, S, seen) ==
    LET more == {v \in S \ seen : \E u \in seen : adjacent(adj, n, u, v)}
    IN IF more = {} THEN seen ELSE reachable(adj, n, S, seen \cup more)

\* The connected components of the undirected projection induced on S.
components(adj, n, S) == {reachable(adj, n, S, {v}) : v \in S}

\* v is an articulation point of the graph induced on S: without it the part
\* of S it belongs to falls into several components.
is_articulation_point(adj, n, S, v) ==
    /\ v \in S
    /\ Cardinality(components(adj, n, S \ {v})) > Cardinality(components(adj, n, S))

\* C22: for every adjacency and every used mask find_articulation_points marks
\* exactly the unused vertices whose removal disconnects a component of the
\* undirected projection induced on the unused vertices; no used vertex is
\* marked.
C22_MarksArticulationPoints ==
    (call.fn = "find_articulation_points" /\ result.done) =>
        \A v \in 0..(call.n - 1) :
            result.ap[v] <=>
                is_articulation_point(call.adj, call.n,
                    {u \in 0..(call.n - 1) : ~result.bl[u]}, v)

\* The loops taken one pair at a time end with the conditions the function
\* gives.
SymmetryAgrees ==
    (call.fn = "symmetry_breaking_conditions" /\ result # NoResult /\ result.done) =>
        SomeConditions(result.cs)
            = symmetry_breaking_conditions(AutoGroups(call.adj, call.n),
                                           result.orbs, call.n)

\* C23: in symmetry_breaking_conditions every permutation left in the group
\* satisfies g[i] < g[j] for every condition accepted so far, every accepted
\* condition has i < j with i and j in one orbit, no condition is pushed when
\* the group holds exactly one permutation, and a group that holds one
\* permutation from the start ends with no condition.
C23_GroupRespectsConditions ==
    (call.fn = "symmetry_breaking_conditions" /\ result # NoResult) =>
        /\ \A g \in result.group : \A k \in 1..Len(result.cs) :
               g[cmin(result.cs[k])] < g[cmax(result.cs[k])]
        /\ \A k \in 1..Len(result.cs) :
               /\ cmin(result.cs[k]) < cmax(result.cs[k])
               /\ result.orbs[cmin(result.cs[k])] = result.orbs[cmax(result.cs[k])]
        /\ \A k \in 1..Len(result.sizes) : result.sizes[k] # 1
        /\ Cardinality(result.start) = 1 => result.cs = <<>>

\* The group of a pattern with several automorphisms has been cut down to one
\* permutation by more than one condition, and the loops have stopped.
C23_Witness ==
    /\ call.fn = "symmetry_breaking_conditions" /\ result # NoResult /\ result.done
    /\ Cardinality(result.start) > 2
    /\ Cardinality(result.group) = 1
    /\ Len(result.cs) > 1
    /\ result.pairs # <<>>

(* ------------------------------ C24 ------------------------------------ *)

\* The bounds used[c.min()] + 1 of the conditions whose larger position is the
\* one about to be assigned.
label_bounds(usd, conds) ==
    IF conds.some
    THEN {At(usd, cmin(conds.conds[k])) + 1 :
              k \in {j \in 1..Len(conds.conds) : cmax(conds.conds[j]) = Len(usd)}}
    ELSE {}

\* C24: minimal_possible_index(used, conditions) is the largest used[c.min()] + 1
\* over the conditions with c.max() = used.len(), and 0 when there is none;
\* every candidate inserted for a non-empty used is at least that value, and a
\* vertex v pushed at position p satisfies used[i] < v for every
\* Condition(i, p) of the node.
C24_CandidatesAboveLabelMin ==
    InCensus =>
        /\ Top.pc \in {"enter", "built"} =>
               LET conds == conditions(trie[Top.node])
                   bounds == label_bounds(used, conds)
                   label_min == minimal_possible_index(used, conds)
               IN /\ bounds = {} => label_min = 0
                  /\ bounds # {} =>
                         label_min \in bounds /\ \A b \in bounds : b <= label_min
                  /\ (Top.pc = "built" /\ used # <<>>) =>
                         \A v \in cand_held(candidates) :
                             /\ v >= label_min
                             /\ \A b \in bounds : v >= b
        /\ \A s \in 2..Len(stack) : Holding(stack[s]) =>
               LET conds == conditions(trie[stack[s].node])
                   p == s - 2
               IN conds.some =>
                      \A k \in 1..Len(conds.conds) :
                          cmax(conds.conds[k]) = p =>
                              At(used, cmin(conds.conds[k])) < stack[s].v

\* Candidates have been inserted for a node with two conditions on the position
\* being assigned, whose bounds differ, and one of them has been pushed there.
C24_Witness ==
    /\ InCensus /\ Top.pc = "body"
    /\ LET conds == conditions(trie[Top.node])
           usd == SubSeq(used, 1, Len(used) - 1)
       IN /\ Cardinality(label_bounds(usd, conds)) > 1
          /\ At(used, Len(used) - 1) = Top.v

(* ------------------------------ C25 ------------------------------------ *)

\* The children of the frame's node that its loop has still to visit are the
\* tail of the child list, and the call above it, if any, is for the child just
\* before that tail.
visits_in_order(s) ==
    LET kids == trie[stack[s].node].children
        left == stack[s].kids
    IN /\ Len(left) <= Len(kids)
       /\ left = SubSeq(kids, Len(kids) - Len(left) + 1, Len(kids))
       /\ s < Len(stack) =>
              /\ Len(left) < Len(kids)
              /\ stack[s + 1].node = kids[Len(kids) - Len(left)]

C26_ConnectionsAreEarlierPositions ==
    (call.fn = "insert_pattern" /\ result.done) =>
        \A x \in NodeIds(result.nodes) \ {Root} :
            LET node == result.nodes[x]
                d == node.depth
            IN /\ node.connections
                    = AscSeq({u \in 0..(d - 2) :
                                 out_contains(node, u) \/ in_contains(node, u)})
               /\ \A k \in 1..Len(node.connections) : node.connections[k] < d - 1

(* ------------------------------ C27 ------------------------------------ *)

\* The input of the relabelling is weakly connected.
input_connected == Cardinality(components(call.adj, call.n, 0..(call.n - 1))) = 1

\* The relabelling has run to its end on the input of the call.
Relabelled == call.fn = "relabel_loop" /\ result # NoResult /\ result.done /\ ~result.panicked

\* C27: for every weakly connected input pattern the adjacency relabelled by
\* calculate_relabels and relabel_adj has, for every position p >= 1, an edge in
\* either direction between p and some position q < p, and every trie node of
\* depth >= 2 built from it has a non-empty active_connections list.
C27_EveryPositionJoinsAnEarlierOne ==
    (Relabelled /\ input_connected) =>
        LET radj == relabel_adj(call.adj, call.n, result.labels)
            nodes == insert(EmptyTrie, from_graph(call.n, unpack(radj, call.n)),
                            NoConditions)
        IN /\ \A p \in 1..(call.n - 1) :
                  \E q \in 0..(p - 1) : adjacent(radj, call.n, p, q)
           /\ \A x \in NodeIds(nodes) :
                  nodes[x].depth >= 2 => nodes[x].connections # <<>>

(* ------------------------------ C28 ------------------------------------ *)

\* C28: for every adjacency matrix calculate_relabels runs all its iterations:
\* the assertion min_u >= 0 never fails and no degree counter goes below zero;
\* at the end labels is a permutation of 0 .. size-1, so that relabel_adj
\* gives a graph isomorphic to the input, with as many edges.
C28_RelabelCompletes ==
    (call.fn = "relabel_loop" /\ result # NoResult) =>
        /\ ~result.panicked
        /\ \A v \in 0..(call.n - 1) :
               result.degree[v] >= 0 /\ result.last_degree[v] >= 0
        /\ result.done =>
               LET radj == relabel_adj(call.adj, call.n, result.labels)
               IN /\ result.labels \in PermVectors(call.n)
                  /\ renumbered(radj, call.n, result.labels) = call.adj
                  /\ Cardinality(radj) = Cardinality(call.adj)

\* The relabelling of a connected graph on 5 vertices, which looks for
\* articulation points twice, has run to its end and moved vertex 0.
C28_Witness ==
    /\ Relabelled /\ call.n = 5 /\ input_connected
    /\ result.labels[0] # 0
    /\ Cardinality(call.adj) > 8

(* ------------------------------ C29 ------------------------------------ *)

\* The candidate buffer holds nothing and has no membership bit set.
buffer_empty == candidates.n = 0 /\ candidates.blacklist = {}

\* C29: match_child_conditionally is entered for a node of depth d with d-1
\* entries on used and an empty candidate buffer; it returns with used and
\* blacklist as they were at entry and the buffer empty again: between the
\* accepted vertices and at the return used has d-1 entries, which no step of
\* the call or of the calls below it has changed, and blacklist holds exactly
\* them; after census returns used and blacklist are empty.
C29_BacktrackingRestores ==
    /\ [](InCensus =>
             /\ blacklist = Range(used)
             /\ (Len(stack) > 1 /\ Top.pc \in {"enter", "loop"}) =>
                    /\ Len(used) = trie[Top.node].depth - 1
                    /\ buffer_empty)
    /\ [](phase = "done" => used = <<>> /\ blacklist = {} /\ buffer_empty)
    /\ [][(InCensus /\ Len(stack) > 1) =>
             LET d == trie[Top.node].depth
             IN /\ Len(used') >= d - 1
                /\ SubSeq(used', 1, d - 1) = SubSeq(used, 1, d - 1)
                /\ (Top.pc = "loop" /\ Top.vertices = <<>>) =>
                       /\ used' = used /\ blacklist' = blacklist
                       /\ Len(stack') = Len(stack) - 1]_vars

\* A call for a node of depth 3 that has accepted and counted a vertex is about
\* to return, with the two earlier vertices on used.
C29_Witness ==
    /\ InCensus /\ Top.pc = "loop" /\ Top.vertices = <<>>
    /\ trie[Top.node].depth = 3
    /\ trie[Top.node].frequency > 0
    /\ Len(used) = 2

(* ------------------------------ C30 ------------------------------------ *)

\* C30: under any sequence of insert(v) with v < size, fill, pop and clear the
\* element count n never exceeds the number of bits set in the membership
\* bitset, which never exceeds size, so that insert never writes past the end
\* of the backing vector; a popped vertex stays marked in the bitset, and an
\* insert of it is ignored until clear is called.
C30_CountWithinMembership ==
    call.fn = "candidates" =>
        /\ candidates.n <= Cardinality(candidates.blacklist)
        /\ Cardinality(candidates.blacklist) <= candidates.size
        /\ candidates.blacklist \subseteq 0..(candidates.size - 1)
        /\ DOMAIN candidates.candidates = 0..(candidates.size - 1)
        /\ (result.done /\ result.op = "insert" /\ candidates # result.before) =>
               /\ result.before.n < result.before.size
               /\ candidates.n = result.before.n + 1
               /\ candidates.candidates[result.before.n] \notin result.before.blacklist
        /\ (result.done /\ result.op = "pop" /\ result.idx # -1) =>
               /\ result.idx \in candidates.blacklist
               /\ candidates.blacklist = result.before.blacklist
        /\ \A v \in candidates.blacklist \ cand_held(candidates) :
               cand_insert(candidates, v) = candidates

\* Every vertex has been inserted and popped, and an insert has just been
\* ignored: the buffer holds nothing and every membership bit is still set.
C30_Witness ==
    /\ call.fn = "candidates" /\ call.size = 3
    /\ result.done /\ result.op = "insert" /\ candidates = result.before
    /\ candidates.n = 0
    /\ Cardinality(candidates.blacklist) = 3

====
